---------------------------- MODULE Spec2Model ----------------------------
(***************************************************************************)
(* A model of packages/node-resolve/src/index.js: the probe caches, the    *)
(* manifest interpreter (getCachedPackageInfo), the candidate driver       *)
(* (resolveImportSpecifiers) and the resolveId / load / generateBundle     *)
(* hooks of the plugin object.                                             *)
(*                                                                         *)
(* JavaScript strings are TLA+ strings; s[i] of JavaScript is CharAt(s,    *)
(* i+1).  The values undefined, false and "an object" that a manifest      *)
(* field can hold are the marker strings UNDEF, JSFALSE and OBJECT, which  *)
(* no path or specifier of the model equals.                               *)
(***************************************************************************)
EXTENDS Naturals, Sequences, FiniteSets, TLC

UNDEF == "<undefined>"
JSFALSE == "<false>"
OBJECT == "<object>"
\* The character U+0000, which a TLA+ string cannot hold, is written "#".
NUL == "#"

\* ------------------------------------------------------------------------
\* Strings and the functions of node's path module (posix)
\* ------------------------------------------------------------------------

CharAt(s, i) == IF i >= 1 /\ i <= Len(s) THEN SubSeq(s, i, i) ELSE UNDEF

StartsWith(s, p) == Len(p) <= Len(s) /\ SubSeq(s, 1, Len(p)) = p

EndsWith(s, p) == Len(p) <= Len(s) /\ SubSeq(s, Len(s) - Len(p) + 1, Len(s)) = p

Contains(s, c) == \E i \in 1..Len(s) : SubSeq(s, i, i) = c

\* String.prototype.indexOf(needle) === 0
IndexOfIsZero(s, needle) == StartsWith(s, needle)

RECURSIVE SplitAcc(_, _, _, _)
SplitAcc(s, i, cur, acc) ==
    IF i > Len(s) THEN Append(acc, cur)
    ELSE IF SubSeq(s, i, i) = "/" THEN SplitAcc(s, i + 1, "", Append(acc, cur))
    ELSE SplitAcc(s, i + 1, cur \o SubSeq(s, i, i), acc)

\* s.split('/')
Split(s) == SplitAcc(s, 1, "", << >>)

RECURSIVE NormSegs(_, _)
NormSegs(segs, acc) ==
    IF segs = << >> THEN acc
    ELSE LET h == Head(segs)
         IN  IF h = "" \/ h = "." THEN NormSegs(Tail(segs), acc)
             ELSE IF h = ".."
                  THEN NormSegs(Tail(segs),
                                IF acc = << >> THEN acc ELSE SubSeq(acc, 1, Len(acc) - 1))
                  ELSE NormSegs(Tail(segs), Append(acc, h))

RECURSIVE JoinSegs(_)
JoinSegs(segs) == IF segs = << >> THEN "" ELSE "/" \o Head(segs) \o JoinSegs(Tail(segs))

AbsFromSegs(segs) == IF segs = << >> THEN "/" ELSE JoinSegs(segs)

\* path.resolve(base, p) for an absolute base
resolve(base, p) ==
    IF StartsWith(p, "/") THEN AbsFromSegs(NormSegs(Split(p), << >>))
    ELSE AbsFromSegs(NormSegs(Split(base \o "/" \o p), << >>))

\* path.normalize(p) for an absolute p: a trailing separator is kept
normalize(p) ==
    LET n == AbsFromSegs(NormSegs(Split(p), << >>))
    IN  IF EndsWith(p, "/") /\ n # "/" THEN n \o "/" ELSE n

\* path.dirname(p) for an absolute p
dirname(p) ==
    LET segs == NormSegs(Split(p), << >>)
    IN  IF Len(segs) <= 1 THEN "/" ELSE JoinSegs(SubSeq(segs, 1, Len(segs) - 1))

basename(p) ==
    LET segs == NormSegs(Split(p), << >>)
    IN  IF segs = << >> THEN "" ELSE segs[Len(segs)]

\* path.extname(p) is non-empty: the base name has a '.' after its first character
HasExtname(p) ==
    LET b == basename(p)
    IN  \E i \in 2..Len(b) : SubSeq(b, i, i) = "."

RECURSIVE TrimLeft(_)
TrimLeft(s) == IF Len(s) > 0 /\ SubSeq(s, 1, 1) = " " THEN TrimLeft(SubSeq(s, 2, Len(s))) ELSE s

RECURSIVE TrimRight(_)
TrimRight(s) ==
    IF Len(s) > 0 /\ SubSeq(s, Len(s), Len(s)) = " "
    THEN TrimRight(SubSeq(s, 1, Len(s) - 1)) ELSE s

\* String.prototype.trim takes no argument: jail.trim(sep) strips white space only
trim(s) == TrimRight(TrimLeft(s))


\* ------------------------------------------------------------------------
\* The world of one build: the project on disk and the platform's built-ins
\* ------------------------------------------------------------------------

\* builtin-modules, two of its names
builtins == {"fs", "path"}

ES6_BROWSER_EMPTY == NUL \o "node-resolve:empty.js"

DEFAULT_EXTS == <<".mjs", ".js", ".json", ".node">>

\* process.cwd(), the default of options.rootDir
Cwd == "/p"

\* Regular files.  /p/node_modules/dep (top level) and /p/sub/node_modules/dep
\* (nested) are two copies of one package; /p/node_modules/fs is a local package
\* named like a built-in; /p/sub2 is a sibling of /p/sub whose name starts with
\* "sub"; /p/lib/real is a package reached through the link /p/node_modules/ln.
Files ==
    { "/p/main.js",
      "/p/node_modules/dep/package.json", "/p/node_modules/dep/index.js",
      "/p/node_modules/dep/esm.js", "/p/node_modules/dep/b.js",
      "/p/node_modules/dep/c.js",
      "/p/node_modules/fs/package.json", "/p/node_modules/fs/index.js",
      "/p/sub/imp.js",
      "/p/sub/node_modules/dep/package.json", "/p/sub/node_modules/dep/lib.js",
      "/p/sub2/x.js",
      "/p/lib/real/package.json", "/p/lib/real/index.js" }

Directories ==
    { "/", "/p", "/p/node_modules", "/p/node_modules/dep", "/p/node_modules/fs",
      "/p/sub", "/p/sub/node_modules", "/p/sub/node_modules/dep", "/p/sub2",
      "/p/lib", "/p/lib/real" }

\* Symbolic links: <<link, target>>
LinkFrom == "/p/node_modules/ln"
LinkTo == "/p/lib/real"

\* Files whose source has import/export syntax (is-module)
EsModules == { "/p/main.js", "/p/node_modules/dep/esm.js", "/p/node_modules/dep/b.js",
               "/p/sub/imp.js", "/p/sub2/x.js", "/p/lib/real/index.js" }

\* fs.realpath / fs.realpathSync of a path that exists
realpath(p) ==
    IF p = LinkFrom THEN LinkTo
    ELSE IF StartsWith(p, LinkFrom \o "/")
         THEN LinkTo \o SubSeq(p, Len(LinkFrom) + 1, Len(p))
         ELSE p

NoBrowser == << >>

\* The parsed manifests, by the real path of package.json.  f holds the
\* string-valued fields (UNDEF: absent, OBJECT: the browser field is an object);
\* browser holds the browser object's entries in key order.
Manifest(path) ==
    CASE path = "/p/node_modules/dep/package.json" ->
           [f |-> [main |-> "index.js", module |-> "./esm.js", jsnextmain |-> UNDEF,
                   browser |-> OBJECT],
            browser |-> << <<"foo", JSFALSE>>, <<"./esm.js", "./b.js">>,
                           <<"./c.js", JSFALSE>> >>,
            sideEffects |-> "false"]
      [] path = "/p/sub/node_modules/dep/package.json" ->
           [f |-> [main |-> "lib.js", module |-> UNDEF, jsnextmain |-> UNDEF,
                   browser |-> UNDEF],
            browser |-> NoBrowser, sideEffects |-> UNDEF]
      [] path = "/p/node_modules/fs/package.json" ->
           [f |-> [main |-> "index.js", module |-> UNDEF, jsnextmain |-> UNDEF,
                   browser |-> UNDEF],
            browser |-> NoBrowser, sideEffects |-> UNDEF]
      [] OTHER ->
           [f |-> [main |-> UNDEF, module |-> "index.js", jsnextmain |-> UNDEF,
                   browser |-> OBJECT],
            browser |-> << <<"./gone.js", JSFALSE>> >>, sideEffects |-> "true"]

\* pkg[field] for a field name of a manifest
PkgField(pkg, field) ==
    CASE field = "main" -> pkg.f.main
      [] field = "module" -> pkg.f.module
      [] field = "jsnext:main" -> pkg.f.jsnextmain
      [] field = "browser" -> pkg.f.browser
      [] OTHER -> UNDEF

\* typeof v === 'string'
IsJsString(v) == v \notin {UNDEF, OBJECT, JSFALSE}

\* A JavaScript value used as a condition
Truthy(v) == v \notin {UNDEF, JSFALSE, ""}

\* ------------------------------------------------------------------------
\* nodeResolve(options): the options and what the closure derives from them
\* ------------------------------------------------------------------------

VARIABLES
    options,            \* the options object nodeResolve was called with
    preserveSymlinks,   \* set by buildStart from the input options
    packageInfoCache,   \* Map: manifest path -> internalPackageInfo
    browserMapCache,    \* Map: module id -> browser map
    idToPackageInfo     \* Map: id -> packageInfo

\* getMainFields(options): [err |-> it throws, v |-> the list returned]
DeprecatedFields == << <<"module", "module", TRUE>>, <<"jsnext", "jsnext:main", FALSE>>,
                       <<"main", "main", TRUE>> >>

RECURSIVE DeprecatedMainFields(_, _, _)
DeprecatedMainFields(o, i, acc) ==
    IF i > Len(DeprecatedFields) THEN acc
    ELSE LET option == DeprecatedFields[i][1]
             field == DeprecatedFields[i][2]
             defaultIncluded == DeprecatedFields[i][3]
         IN  DeprecatedMainFields(o, i + 1,
                IF option \in o.deprecated
                THEN IF option \in o.deprecatedOn THEN Append(acc, field) ELSE acc
                ELSE IF defaultIncluded THEN Append(acc, field) ELSE acc)

SeqHas(seq, x) == \E i \in 1..Len(seq) : seq[i] = x

getMainFields(o) ==
    IF o.hasMainFields /\ o.deprecated # {}
    THEN [err |-> TRUE, v |-> << >>]
    ELSE LET mf == IF o.hasMainFields THEN o.mainFields
                   ELSE DeprecatedMainFields(o, 1, << >>)
         IN  IF o.browser /\ ~SeqHas(mf, "browser")
             THEN [err |-> FALSE, v |-> <<"browser">> \o mf]
             ELSE IF Len(mf) = 0 THEN [err |-> TRUE, v |-> << >>]
             ELSE [err |-> FALSE, v |-> mf]

mainFields == getMainFields(options).v
useBrowserOverrides == SeqHas(mainFields, "browser")
dedupe == options.dedupe
isPreferBuiltinsSet == options.preferBuiltins \in {"true", "false"}
preferBuiltins == IF isPreferBuiltinsSet THEN options.preferBuiltins = "true" ELSE TRUE
rootDir == IF Truthy(options.rootDir) THEN options.rootDir ELSE Cwd
jail == options.jail
extensions == DEFAULT_EXTS

\* getPackageName(id): the package name of a bare specifier, UNDEF (null) otherwise
getPackageName(id) ==
    IF StartsWith(id, ".") \/ StartsWith(id, "/") THEN UNDEF
    ELSE LET split == Split(id)
         IN  IF CharAt(split[1], 1) = "@"
             THEN split[1] \o "/" \o (IF Len(split) >= 2 THEN split[2] ELSE "undefined")
             ELSE split[1]

\* A dedupe option that matches nothing
NeverDedupe(importee) == FALSE

\* shouldDedupe when options.dedupe is a list
shouldDedupe(importee) ==
    SeqHas(dedupe, importee) \/ SeqHas(dedupe, getPackageName(importee))

\* ------------------------------------------------------------------------
\* getCachedPackageInfo(pkg, pkgPath)
\* ------------------------------------------------------------------------

MapSet(m, k, v) == (k :> v) @@ m
MapHas(m, k) == k \in DOMAIN m
MapGet(m, k) == IF k \in DOMAIN m THEN m[k] ELSE UNDEF
EmptyMap == << >>

RECURSIVE ExtReduce(_, _, _, _)
ExtReduce(i, absoluteKey, key, browser) ==
    IF i > Len(extensions) THEN browser
    ELSE ExtReduce(i + 1, absoluteKey, key,
                   MapSet(browser, absoluteKey \o extensions[i], browser[key]))

\* Object.keys(pkg.browser).reduce(..., {})
RECURSIVE ReduceBrowser(_, _, _, _)
ReduceBrowser(pairs, i, pkgRoot, browser) ==
    IF i > Len(pairs) THEN browser
    ELSE LET key == pairs[i][1]
             raw == pairs[i][2]
             resolved == IF Truthy(raw) /\ CharAt(raw, 1) = "."
                         THEN resolve(pkgRoot, raw) ELSE raw
             b1 == MapSet(browser, key, resolved)
             absoluteKey == resolve(pkgRoot, key)
             b2 == IF CharAt(key, 1) = "."
                   THEN IF ~HasExtname(key)
                        THEN ExtReduce(1, absoluteKey, key, MapSet(b1, absoluteKey, resolved))
                        ELSE MapSet(b1, absoluteKey, resolved)
                   ELSE b1
         IN  ReduceBrowser(pairs, i + 1, pkgRoot, b2)

\* A main-field loop that takes the first configured field, present or not
AlwaysFirstField(pkg, fields, i) == IF Len(fields) >= 1 THEN 1 ELSE 0

\* The main-field loop: the index in mainFields of the first field that pkg holds
\* as a string, 0 when there is none
RECURSIVE FirstMainField(_, _, _)
FirstMainField(pkg, fields, i) ==
    IF i > Len(fields) THEN 0
    ELSE IF IsJsString(PkgField(pkg, fields[i])) THEN i
    ELSE FirstMainField(pkg, fields, i + 1)

\* preserveSymlinks used as a condition (undefined and false are falsy)
PreserveSymlinksOn == preserveSymlinks = "true"

\* The path getCachedPackageInfo works with after
\* if (!preserveSymlinks) pkgPath = realpathSync(pkgPath): the key it stores under
PackageInfoKey(pkgPath) ==
    IF ~PreserveSymlinksOn THEN realpath(pkgPath) ELSE pkgPath

\* pkg.main after the main-field loop
MungedMain(pkg, fields, chosen) ==
    IF chosen # 0 THEN PkgField(pkg, fields[chosen]) ELSE pkg.f.main

\* packageBrowserField (lines 240-260)
PackageBrowserField(pkg, pkgRoot) ==
    IF useBrowserOverrides /\ pkg.f.browser = OBJECT
    THEN [on |-> TRUE, m |-> ReduceBrowser(pkg.browser, 1, pkgRoot, EmptyMap)]
    ELSE [on |-> FALSE, m |-> EmptyMap]

\* resolvedEntryPoint and browserMappedMain (lines 264-277)
EntryPoint(field, pkgRoot, main) ==
    IF field.on /\ MapHas(field.m, main)
    THEN [mapped |-> TRUE, path |-> field.m[main]]
    ELSE [mapped |-> FALSE,
          path |-> resolve(pkgRoot, IF Truthy(main) THEN main ELSE "index.js")]

\* The internalPackageInfo object, from its parts
InternalPackageInfo(pkg, pkgPath, pkgRoot, fields, chosen, main, field, entry) ==
    [ cachedPkg |-> [pkg EXCEPT !.f.main = main],
      hasModuleSideEffects |->
          IF pkg.sideEffects \in {"true", "false"} THEN pkg.sideEffects ELSE "null",
      hasPackageEntry |-> chosen # 0 \/ SeqHas(fields, "main"),
      packageBrowserField |-> field,
      packageInfo |->
          [ packageJson |-> pkg,
            packageJsonPath |-> pkgPath,
            root |-> pkgRoot,
            resolvedMainField |-> IF chosen # 0 THEN fields[chosen] ELSE "main",
            browserMappedMain |-> entry.mapped,
            resolvedEntryPoint |-> entry.path ] ]

InfoWithField(pkg, pkgPath, pkgRoot, fields, chosen, main, field) ==
    InternalPackageInfo(pkg, pkgPath, pkgRoot, fields, chosen, main, field,
                        EntryPoint(field, pkgRoot, main))

InfoWithChoice(pkg, pkgPath, pkgRoot, fields, chosen) ==
    InfoWithField(pkg, pkgPath, pkgRoot, fields, chosen,
                  MungedMain(pkg, fields, chosen), PackageBrowserField(pkg, pkgRoot))

InfoAt(pkg, pkgPath, fields) ==
    InfoWithChoice(pkg, pkgPath, dirname(pkgPath), fields, FirstMainField(pkg, fields, 1))

\* The internalPackageInfo computed on a cache miss (lines 197-286)
ComputePackageInfo(pkg, givenPath) == InfoAt(pkg, PackageInfoKey(givenPath), mainFields)

\* packageInfoCache.set(pkgPath, internalPackageInfo); return internalPackageInfo
StoreInfo(pic, key, info) ==
    [info |-> info, cache |-> MapSet(pic, key, info), miss |-> TRUE]

\* getCachedPackageInfo: [info |-> what it returns, cache |-> packageInfoCache
\* after, miss |-> whether it computed the info]
getCachedPackageInfo(pic, pkg, pkgPath) ==
    IF MapHas(pic, pkgPath) THEN [info |-> pic[pkgPath], cache |-> pic, miss |-> FALSE]
    ELSE StoreInfo(pic, PackageInfoKey(pkgPath), ComputePackageInfo(pkg, pkgPath))

\* ------------------------------------------------------------------------
\* The closure variables of one resolveId call and its packageFilter
\* ------------------------------------------------------------------------

EmptyPkg == [f |-> [main |-> UNDEF, module |-> UNDEF, jsnextmain |-> UNDEF,
                    browser |-> UNDEF],
             browser |-> NoBrowser, sideEffects |-> UNDEF]

\* packageInfo before packageFilter ran: undefined
NoPackageInfo ==
    [ packageJson |-> EmptyPkg, packageJsonPath |-> UNDEF, root |-> UNDEF,
      resolvedMainField |-> UNDEF, browserMappedMain |-> FALSE,
      resolvedEntryPoint |-> UNDEF ]

\* let hasModuleSideEffects = alwaysNull; let hasPackageEntry = true;
\* let packageBrowserField = false; let packageInfo;
InitialClosure ==
    [ hasModuleSideEffects |-> "null", hasPackageEntry |-> TRUE,
      packageBrowserField |-> [on |-> FALSE, m |-> EmptyMap],
      packageInfo |-> NoPackageInfo ]

\* The assignments of packageFilter from what getCachedPackageInfo returned
Filtered(r, log, pkgPath) ==
    [ pic |-> r.cache,
      log |-> IF r.miss THEN Append(log, pkgPath) ELSE log,
      cl |-> [ hasModuleSideEffects |-> r.info.hasModuleSideEffects,
               hasPackageEntry |-> r.info.hasPackageEntry,
               packageBrowserField |-> r.info.packageBrowserField,
               packageInfo |-> r.info.packageInfo ],
      cachedPkg |-> r.info.cachedPkg ]

\* resolveOptions.packageFilter(pkg, pkgPath): the closure variables and the cache
\* after it, and the manifest it hands back to the search; log lists the paths
\* for which getCachedPackageInfo computed the info
packageFilter(st, pkg, pkgPath) ==
    Filtered(getCachedPackageInfo(st.pic, pkg, pkgPath), st.log, pkgPath)

\* ------------------------------------------------------------------------
\* The search of the `resolve` package, which resolveIdAsync calls: the
\* node-style search over the (cached) probes.  Its code is not part of the
\* repository; it is written from the design's description of the Resolution
\* Algorithm.
\* ------------------------------------------------------------------------

VARIABLES
    fsFault     \* the paths whose fs.stat fails with EACCES during this build

\* isFile / isDirectory probes: "true", "false" or "err" (an error other than ENOENT)
StatFile(p) ==
    IF p \in fsFault THEN "err" ELSE IF realpath(p) \in Files THEN "true" ELSE "false"

StatDir(p) ==
    IF p \in fsFault THEN "err" ELSE IF realpath(p) \in Directories THEN "true" ELSE "false"

SearchOut(out, path, st) ==
    [out |-> out, path |-> path, pic |-> st.pic, cl |-> st.cl, log |-> st.log]

Unfiltered(st) == [pic |-> st.pic, cl |-> st.cl, log |-> st.log, cachedPkg |-> EmptyPkg]

ManifestPathIn(dir) == (IF dir = "/" THEN "" ELSE dir) \o "/package.json"

\* The nearest package.json at or above dir, not looking above a node_modules
\* directory: [out |-> "ok" | "none" | "fault", path]
RECURSIVE NearestManifest(_)
NearestManifest(dir) ==
    IF basename(dir) = "node_modules" THEN [out |-> "none", path |-> UNDEF]
    ELSE IF StatFile(ManifestPathIn(dir)) = "err"
         THEN [out |-> "fault", path |-> ManifestPathIn(dir)]
    ELSE IF StatFile(ManifestPathIn(dir)) = "true"
         THEN [out |-> "ok", path |-> ManifestPathIn(dir)]
    ELSE IF dir = "/" THEN [out |-> "none", path |-> UNDEF]
    ELSE NearestManifest(dirname(dir))

\* The first of x, x + ext (in the order of extensions) that is a file
RECURSIVE FirstFile(_, _, _)
FirstFile(x, exts, i) ==
    IF i > Len(exts) THEN [out |-> "none", path |-> UNDEF]
    ELSE IF StatFile(x \o exts[i]) = "err" THEN [out |-> "fault", path |-> x \o exts[i]]
    ELSE IF StatFile(x \o exts[i]) = "true" THEN [out |-> "ok", path |-> x \o exts[i]]
    ELSE FirstFile(x, exts, i + 1)

FileIn(ff, st2) ==
    [out |-> ff.out, path |-> ff.path, pic |-> st2.pic, cl |-> st2.cl, log |-> st2.log]

LoadAsFileNear(x, st, near) ==
    IF near.out = "fault" THEN SearchOut("fault", near.path, st)
    ELSE FileIn(FirstFile(x, <<"">> \o extensions, 1),
                IF near.out = "ok"
                THEN packageFilter(st, Manifest(realpath(near.path)), near.path)
                ELSE Unfiltered(st))

\* x as a file.  The manifest of the package that holds x is consulted first
\* (unless the caller already holds it).
LoadAsFile(x, st, havePkg) ==
    LoadAsFileNear(x, st, IF havePkg THEN [out |-> "none", path |-> UNDEF]
                          ELSE NearestManifest(dirname(x)))

\* The first of the paths that loads as a file
RECURSIVE LoadFirstOf(_, _, _, _)
RECURSIVE LoadNextOf(_, _, _, _)
LoadFirstOf(paths, i, st, havePkg) ==
    IF i > Len(paths) THEN SearchOut("none", UNDEF, st)
    ELSE LoadNextOf(LoadAsFile(paths[i], st, havePkg), paths, i, havePkg)

LoadNextOf(r, paths, i, havePkg) ==
    IF r.out # "none" THEN r ELSE LoadFirstOf(paths, i + 1, r, havePkg)

\* The files a directory x stands for: its manifest's main, main/index, x/index
EntryCandidates(x, main, has) ==
    IF has /\ Truthy(main)
    THEN << resolve(x, main), resolve(x, main) \o "/index", x \o "/index" >>
    ELSE << x \o "/index" >>

LoadAsDirectoryIn(x, st2, has) ==
    LoadFirstOf(EntryCandidates(x, st2.cachedPkg.f.main, has), 1, st2, has)

LoadAsDirectoryStat(x, st, sf) ==
    IF sf = "err" THEN SearchOut("fault", x \o "/package.json", st)
    ELSE LoadAsDirectoryIn(x,
            IF sf = "true"
            THEN packageFilter(st, Manifest(realpath(x \o "/package.json")),
                               x \o "/package.json")
            ELSE Unfiltered(st),
            sf = "true")

\* x as a directory: its manifest's entry point, then index + extensions
LoadAsDirectory(x, st) == LoadAsDirectoryStat(x, st, StatFile(x \o "/package.json"))

LoadPathDir(x, st, sd) ==
    IF sd = "err" THEN SearchOut("fault", x, st)
    ELSE IF sd = "true" THEN LoadAsDirectory(x, st)
    ELSE SearchOut("none", UNDEF, st)

LoadPathAfterFile(x, asFile) ==
    IF asFile.out # "none" THEN asFile ELSE LoadPathDir(x, asFile, StatDir(x))

\* x as a file, then as a directory
LoadPath(x, st) == LoadPathAfterFile(x, LoadAsFile(x, st, FALSE))

NodeModulesIn(dir) == (IF dir = "/" THEN "" ELSE dir) \o "/node_modules"

\* A bare specifier: the node_modules directories from dir upwards
RECURSIVE LoadNodeModules(_, _, _)
RECURSIVE LoadNodeModulesStat(_, _, _, _)
RECURSIVE LoadNodeModulesNext(_, _, _)
LoadNodeModules(x, dir, st) ==
    LoadNodeModulesStat(x, dir, st,
        IF basename(dir) = "node_modules" THEN "false"
        ELSE StatDir(NodeModulesIn(dir) \o "/" \o getPackageName(x)))

LoadNodeModulesStat(x, dir, st, sd) ==
    IF sd = "err" THEN SearchOut("fault", NodeModulesIn(dir), st)
    ELSE IF sd = "true"
         THEN LoadNodeModulesNext(LoadPath(resolve(NodeModulesIn(dir), x), st), x, dir)
    ELSE LoadNodeModulesNext(SearchOut("none", UNDEF, st), x, dir)

LoadNodeModulesNext(r, x, dir) ==
    IF r.out # "none" \/ dir = "/" THEN r ELSE LoadNodeModules(x, dirname(dir), r)

IsPathLike(x) ==
    \/ x \in {".", ".."}
    \/ StartsWith(x, "./") \/ StartsWith(x, "../") \/ StartsWith(x, "/")

\* A search that found nothing fails with MODULE_NOT_FOUND
NotFoundIfNone(r) == IF r.out = "none" THEN [r EXCEPT !.out = "mnf"] ELSE r

\* resolve(x, {basedir, ...}): [out |-> "ok" | "mnf" | "fault", path, pic, cl].
\* A core module's name resolves to itself (see the comment in resolveId).
Search(x, basedir, st) ==
    IF x \in builtins THEN SearchOut("ok", x, st)
    ELSE IF x = "" THEN SearchOut("mnf", UNDEF, st)
    ELSE IF IsPathLike(x) THEN NotFoundIfNone(LoadPath(resolve(basedir, x), st))
    ELSE NotFoundIfNone(LoadNodeModules(x, basedir, st))

\* ------------------------------------------------------------------------
\* The probe caches: cache(fn), readFileCached, isDirCached, isFileCached
\* ------------------------------------------------------------------------

VARIABLES
    started,    \* buildStart has run
    reqs        \* the resolveId calls made so far, each with its position

resolveVars == <<options, preserveSymlinks, packageInfoCache, browserMapCache,
                 idToPackageInfo, fsFault, started, reqs>>

\* Bounds of the cache specification.
MaxOps == 3
MaxCalls == 3
MaxClears == 1

Kinds == {"readFile", "isDir", "isFile"}
CachePaths == {"/p/a"}

\* What the underlying fs call can end with, per kind: fs.readFile yields the
\* contents or an error; fs.stat yields a stat (of a file, of a directory) or an
\* error.
FsOutcomes(k) ==
    IF k = "readFile" THEN {"data", "ENOENT", "EACCES"}
    ELSE {"file", "dir", "ENOENT", "EACCES"}

VARIABLES
    cache,      \* per wrapper, the Map: path -> id of the promise stored (0: no entry)
    ops,        \* the promises fn(param).catch(..) created so far, by id
    calls,      \* the calls wrapped(param, done) made so far
    epoch       \* how many times clear() has run

cacheVars == <<cache, ops, calls, epoch>>

vars == <<cache, ops, calls, epoch, options, preserveSymlinks, packageInfoCache,
          browserMapCache, idToPackageInfo, fsFault, started, reqs>>

\* ignoreENOENT: ENOENT becomes the result false, any other error is rethrown
ignoreENOENT(code) ==
    IF code = "ENOENT" THEN [st |-> "ok", val |-> "false"]
    ELSE [st |-> "err", val |-> code]

\* fn of each wrapper applied to what the fs call ended with: the state and the
\* value of the promise fn(param)
FnResult(k, outcome) ==
    IF k = "readFile"
    THEN IF outcome = "data" THEN [st |-> "ok", val |-> "data"]
         ELSE [st |-> "err", val |-> outcome]
    ELSE IF outcome \in {"ENOENT", "EACCES"} THEN ignoreENOENT(outcome)
    ELSE IF k = "isDir"
         THEN [st |-> "ok", val |-> IF outcome = "dir" THEN "true" ELSE "false"]
         ELSE [st |-> "ok", val |-> IF outcome = "file" THEN "true" ELSE "false"]

EmptyCache == [k \in Kinds |-> [p \in CachePaths |-> 0]]

CacheInit ==
    /\ cache = EmptyCache
    /\ ops = << >>
    /\ calls = << >>
    /\ epoch = 0

\* Whether the call starts fn(param): cache.has(param) === false
CacheMiss(k, p) == cache[k][p] = 0

\* wrapped(param, done): on a miss fn(param) is started and its promise stored;
\* done is then attached to the promise the Map holds.
\* History kept per promise: the epoch it started in and whether a promise for the
\* same key started in the same epoch was pending then.  Per call: whether it
\* started fn, and the result a promise of this epoch for this key had already
\* produced (UNDEF: none).
Wrapped(k, p) ==
    /\ Len(calls) < MaxCalls
    /\ LET miss == CacheMiss(k, p)
           id == IF miss THEN Len(ops) + 1 ELSE cache[k][p]
           known == {ops[i].val : i \in {j \in 1..Len(ops) :
                        /\ ops[j].kind = k /\ ops[j].path = p
                        /\ ops[j].st = "ok" /\ ops[j].epoch = epoch}}
       IN  /\ miss => Len(ops) < MaxOps
           /\ ops' = IF miss
                     THEN Append(ops, [kind |-> k, path |-> p, st |-> "pending",
                                       val |-> UNDEF, epoch |-> epoch,
                                       dup |-> \E j \in 1..Len(ops) :
                                                  /\ ops[j].kind = k /\ ops[j].path = p
                                                  /\ ops[j].st = "pending"
                                                  /\ ops[j].epoch = epoch])
                     ELSE ops
           /\ cache' = IF miss THEN [cache EXCEPT ![k][p] = id] ELSE cache
           /\ calls' = Append(calls, [kind |-> k, path |-> p, op |-> id,
                                      fresh |-> miss, epoch |-> epoch,
                                      known |-> IF known = {} THEN UNDEF
                                                ELSE CHOOSE v \in known : TRUE,
                                      got |-> "waiting", val |-> UNDEF])
    /\ UNCHANGED <<epoch, resolveVars>>

\* The Map after the catch handler of a rejected promise ran: cache.delete(param)
DeleteOnError(k, p, id) == [cache EXCEPT ![k][p] = 0]

\* The fs call of promise id ends: the promise settles; a rejection first runs
\* the catch handler.
Settle(id, outcome) ==
    /\ id \in 1..Len(ops)
    /\ ops[id].st = "pending"
    /\ outcome \in FsOutcomes(ops[id].kind)
    /\ LET r == FnResult(ops[id].kind, outcome)
       IN  /\ ops' = [ops EXCEPT ![id].st = r.st, ![id].val = r.val]
           /\ cache' = IF r.st = "err"
                       THEN DeleteOnError(ops[id].kind, ops[id].path, id)
                       ELSE cache
    /\ UNCHANGED <<calls, epoch, resolveVars>>

\* done(null, result) or done(err) of one call, once its promise has settled
Deliver(c) ==
    /\ c \in 1..Len(calls)
    /\ calls[c].got = "waiting"
    /\ ops[calls[c].op].st # "pending"
    /\ calls' = [calls EXCEPT ![c].got = ops[calls[c].op].st,
                              ![c].val = ops[calls[c].op].val]
    /\ UNCHANGED <<cache, ops, epoch, resolveVars>>

\* wrapped.clear() of the three wrappers, as generateBundle runs them
ClearCaches ==
    /\ epoch < MaxClears
    /\ cache' = EmptyCache
    /\ epoch' = epoch + 1
    /\ UNCHANGED <<ops, calls>>


\* ------------------------------------------------------------------------
\* resolveImportSpecifiers and the hooks of the plugin object
\* ------------------------------------------------------------------------

\* Bound of the resolution specification: the resolveId calls of one run, all of
\* which may be in flight together.
MaxResolves == 2

\* What resolveId returns: null, the string ES6_BROWSER_EMPTY, or a record
\* { id, moduleSideEffects }
ResNull == [kind |-> "null", id |-> UNDEF, moduleSideEffects |-> UNDEF]
ResStub == [kind |-> "stub", id |-> ES6_BROWSER_EMPTY, moduleSideEffects |-> UNDEF]
ResRecord(id, se) == [kind |-> "record", id |-> id, moduleSideEffects |-> se]
ResPending == [kind |-> "pending", id |-> UNDEF, moduleSideEffects |-> UNDEF]

\* The call ended in a TypeError thrown by its synchronous part
ResThrown == [kind |-> "thrown", id |-> UNDEF, moduleSideEffects |-> UNDEF]

\* const basedir = !importer || shouldDedupe(importee) ? rootDir : dirname(importer)
BaseDir(importee, importer) ==
    IF ~Truthy(importer) \/ shouldDedupe(importee) THEN rootDir ELSE dirname(importer)

\* The browser map recorded for the importer, if browser overrides are in use
ImporterBrowser(importer) ==
    [ on |-> useBrowserOverrides /\ MapHas(browserMapCache, importer),
      m |-> IF MapHas(browserMapCache, importer) THEN browserMapCache[importer]
            ELSE EmptyMap ]

\* A resolveId without the test for false entries of the browser map
NoStubHit(browser, importee, basedir) == FALSE

\* browser[importee] === false || browser[resolvedImportee] === false
BrowserStubHit(browser, importee, basedir) ==
    /\ browser.on
    /\ \/ MapGet(browser.m, importee) = JSFALSE
       \/ MapGet(browser.m, resolve(basedir, importee)) = JSFALSE

\* The importee after the importer's browser map was applied (lines 329-336)
BrowserImportee(browser, importee, basedir) ==
    LET resolvedImportee == resolve(basedir, importee)
        c1 == MapGet(browser.m, importee)
        c2 == MapGet(browser.m, resolvedImportee)
        c3 == MapGet(browser.m, resolvedImportee \o ".js")
        c4 == MapGet(browser.m, resolvedImportee \o ".json")
        browserImportee == IF Truthy(c1) THEN c1 ELSE IF Truthy(c2) THEN c2
                           ELSE IF Truthy(c3) THEN c3 ELSE c4
    IN  IF browser.on /\ Truthy(browserImportee) THEN browserImportee ELSE importee

\* The id the `only` patterns are tested against (lines 339-348)
OnlyId(importee, basedir) ==
    LET parts == Split(importee)
        id == parts[1]
    IN  IF CharAt(id, 1) = "@" /\ Len(parts) > 1 THEN id \o "/" \o parts[2]
        ELSE IF CharAt(id, 1) = "." THEN resolve(basedir, importee)
        ELSE id

\* only && !only.some((pattern) => pattern.test(id)), for patterns given as strings
OnlyRejects(id) == options.hasOnly /\ ~SeqHas(options.only, id)

\* /^\.?\.?\//.test(s)
MatchesRelOrAbs(s) == StartsWith(s, "/") \/ StartsWith(s, "./") \/ StartsWith(s, "../")

\* importee[0].match(...) where importee[0] is undefined: the right operand of
\* importer === undefined && ... is evaluated for an absent importer only
ThrowsOnFirstChar(importee, importer) == importer = UNDEF /\ importee = ""

\* importSpecifierList (lines 381-405); importee[0] is the first character
ImportSpecifierList(importee, importer) ==
    (IF importer = UNDEF /\ ~MatchesRelOrAbs(CharAt(importee, 1))
     THEN << "./" \o importee >> ELSE << >>)
    \o (IF importee \in builtins /\ (~preferBuiltins \/ ~isPreferBuiltinsSet)
        THEN << importee \o "/" >> ELSE << >>)
    \o << importee >>

\* A catch handler that rethrows every error
SwallowsNothing(out, i, n) == FALSE

\* A catch handler without the test of err.code
SwallowsAnyFailure(out, i, n) == i < n

\* The catch handler of resolveImportSpecifiers, attached to every candidate but
\* the last: whether the failure of candidate i of n is swallowed
SwallowsFailure(out, i, n) == i < n /\ out = "mnf"

\* The first then-callback of resolveId (lines 410-428), applied to the path the
\* search found: the id carried on, whether it is the empty stub, and
\* browserMapCache afterwards
PostResolve(cl, resolved, bmc) ==
    LET field == cl.packageBrowserField
        listed == field.on /\ MapHas(field.m, resolved)
        stub == listed /\ ~Truthy(field.m[resolved])
        mapped == IF listed /\ ~stub THEN field.m[resolved] ELSE resolved
    IN  [ resolved |-> IF stub THEN ES6_BROWSER_EMPTY ELSE mapped,
          stub |-> stub,
          bmc |-> IF ~field.on THEN bmc
                  ELSE IF stub THEN MapSet(bmc, resolved, field.m)
                  ELSE MapSet(bmc, mapped, field.m) ]

\* hasPackageEntry && !preserveSymlinks && resolved
WantsRealpath(cl, resolved) == cl.hasPackageEntry /\ ~PreserveSymlinksOn

\* fs.exists(file)
Exists(p) == p \notin fsFault /\ realpath(p) \in (Files \cup Directories)

\* jail && resolved.indexOf(normalize(jail.trim(sep))) !== 0
JailRejects(resolved) ==
    Truthy(jail) /\ ~IndexOfIsZero(resolved, normalize(trim(jail)))

\* The second then-callback without its importeeIsBuiltin branch
EntryDecisionNoShadow(cl, importee, resolved) ==
    IF ~cl.hasPackageEntry THEN "keep"
    ELSE IF resolved \in builtins /\ preferBuiltins /\ isPreferBuiltinsSet THEN "builtin"
    ELSE IF Truthy(jail) /\ ~StartsWith(resolved, normalize(trim(jail))) THEN "jail"
    ELSE "keep"

\* The decisions of the second then-callback under hasPackageEntry (lines
\* 432-447): "builtin" (return null), "shadow" (return null, after the warning
\* when preferBuiltins was not set), "jail" (return null) or "keep"
EntryDecision(cl, importee, resolved) ==
    IF ~cl.hasPackageEntry THEN "keep"
    ELSE IF resolved \in builtins /\ preferBuiltins /\ isPreferBuiltinsSet THEN "builtin"
    ELSE IF importee \in builtins /\ preferBuiltins THEN "shadow"
    ELSE IF JailRejects(resolved) THEN "jail"
    ELSE "keep"

\* Whether the "shadow" decision calls this.warn
WarnsOnShadow == ~isPreferBuiltinsSet

\* hasModuleSideEffects(resolved): null, true or false
ModuleSideEffects(cl, resolved) == cl.hasModuleSideEffects

\* load(importee)
LoadResult(importee) ==
    IF importee = ES6_BROWSER_EMPTY THEN "export default {};" ELSE UNDEF

\* getPackageInfoForId(id)
getPackageInfoForId(id) ==
    IF MapHas(idToPackageInfo, id) THEN idToPackageInfo[id] ELSE NoPackageInfo


\* ------------------------------------------------------------------------
\* The configurations and requests of the model
\* ------------------------------------------------------------------------

MainFieldChoices ==
    { [has |-> FALSE, v |-> << >>],
      [has |-> TRUE, v |-> <<"main", "module">>],
      [has |-> TRUE, v |-> <<"module">>] }

DedupeChoices == { << >>, <<"dep">> }

JailChoices == { UNDEF, "/p/sub" }

Options(mf, b, d, pb, j, mo, ps) ==
    [ hasMainFields |-> mf.has, mainFields |-> mf.v,
      deprecated |-> {}, deprecatedOn |-> {},
      browser |-> b, dedupe |-> d, preferBuiltins |-> pb, rootDir |-> UNDEF,
      jail |-> j, modulesOnly |-> mo, hasOnly |-> FALSE, only |-> << >>,
      inputPreserveSymlinks |-> ps ]

DefaultOptions ==
    Options([has |-> FALSE, v |-> << >>], FALSE, << >>, UNDEF, UNDEF, FALSE, "false")

\* Every combination of the policy options, with the default main fields
PolicyChoices ==
    { Options([has |-> FALSE, v |-> << >>], b, << >>, pb, j, mo, ps) :
      b \in BOOLEAN, pb \in {UNDEF, "true", "false"}, j \in JailChoices,
      mo \in BOOLEAN, ps \in {"false", "true"} }

\* The main fields and the dedupe list, with the policy options at their defaults
SearchChoices ==
    { Options(mf, b, d, UNDEF, UNDEF, FALSE, "false") :
      mf \in MainFieldChoices, b \in BOOLEAN, d \in DedupeChoices }

OptionChoices == PolicyChoices \cup SearchChoices

\* The configurations run on a filesystem with unreadable paths
FaultOptionChoices ==
    { Options([has |-> FALSE, v |-> << >>], FALSE, << >>, pb, UNDEF, FALSE, "false") :
      pb \in {UNDEF, "false"} }

FaultyPaths == {"/p/main.js", "/p/node_modules/fs"}

\* <<importee, importer>>; UNDEF is the absent importer of an entry point
RequestChoices ==
    { <<"dep", "/p/main.js">>, <<"dep", "/p/sub/imp.js">>,
      <<"dep/c.js", "/p/sub/imp.js">>,
      <<"fs", "/p/main.js">>, <<"fs", UNDEF>>, <<"path", "/p/main.js">>,
      <<"foo", "/p/node_modules/dep/b.js">>, <<"./c.js", "/p/node_modules/dep/b.js">>,
      <<"../sub2/x.js", "/p/sub/imp.js">>, <<"main.js", UNDEF>>,
      <<"ln", "/p/main.js">>, <<"nope", UNDEF>>, <<"", UNDEF>>,
      <<ES6_BROWSER_EMPTY, "/p/main.js">>, <<NUL \o "virtual", "/p/main.js">> }

\* load has not been called for the id a request returned
NotLoaded == "<not loaded>"

Constructed ==
    /\ ~getMainFields(options).err
    /\ preserveSymlinks = UNDEF
    /\ packageInfoCache = EmptyMap
    /\ browserMapCache = EmptyMap
    /\ idToPackageInfo = EmptyMap
    /\ started = FALSE
    /\ reqs = << >>

ResolveInit ==
    /\ \/ options \in OptionChoices /\ fsFault = {}
       \/ options \in FaultOptionChoices /\ fsFault = FaultyPaths
    /\ Constructed

Init == CacheInit /\ ResolveInit

\* ------------------------------------------------------------------------
\* The hooks
\* ------------------------------------------------------------------------

\* buildStart(options): ({ preserveSymlinks } = options).  The host's version is
\* taken to be sufficient.
BuildStart ==
    /\ ~started
    /\ started' = TRUE
    /\ preserveSymlinks' = options.inputPreserveSymlinks
    /\ UNCHANGED <<cacheVars, options, packageInfoCache, browserMapCache,
                   idToPackageInfo, fsFault, reqs>>

Settled(r) == r.pc \in {"done", "loaded"}

\* generateBundle(), which the host runs once the modules of the build are
\* resolved
GenerateBundle ==
    /\ started
    /\ \A s \in 1..Len(reqs) : Settled(reqs[s])
    /\ ClearCaches
    /\ UNCHANGED resolveVars

\* load(importee), which the host calls with the id a request resolved to
Load(s) ==
    /\ s \in 1..Len(reqs)
    /\ reqs[s].pc = "done"
    /\ reqs[s].result.kind \in {"stub", "record"}
    /\ reqs' = [reqs EXCEPT ![s].pc = "loaded",
                            ![s].loadOut = LoadResult(reqs[s].result.id)]
    /\ UNCHANGED <<cacheVars, options, preserveSymlinks, packageInfoCache,
                   browserMapCache, idToPackageInfo, fsFault, started>>

\* What the synchronous part of resolveId returns at once, ResPending when it
\* goes on to the search
Immediate(importee0, importer, basedir, browser) ==
    IF importee0 = ES6_BROWSER_EMPTY THEN ResStub
    ELSE IF Contains(importee0, NUL) THEN ResNull
    ELSE IF BrowserStubHit(browser, importee0, basedir) THEN ResStub
    ELSE IF OnlyRejects(OnlyId(BrowserImportee(browser, importee0, basedir), basedir))
         THEN ResNull
    ELSE IF ThrowsOnFirstChar(BrowserImportee(browser, importee0, basedir), importer)
         THEN ResThrown
    ELSE ResPending

\* What the search of one candidate ends with, whatever was resolved before
FreshSearch(x, basedir) ==
    Search(x, basedir, [pic |-> EmptyMap, cl |-> InitialClosure, log |-> << >>])

OutcomeOf(sr) == [out |-> sr.out, path |-> sr.path]

\* A resolveImportSpecifiers that starts the searches of all remaining candidates
\* at once
BeginsRest(i, n) == i..n

\* The searches a then-callback of resolveImportSpecifiers starts when the chain
\* reaches candidate i of n (lines 118-124): resolveIdAsync(importSpecifierList[i])
Begins(i, n) == IF i <= n THEN {i} ELSE {}

\* The position of a resolveId call when its synchronous part has run.  Beside
\* the variables of the call it holds, for the properties, what the call has done
\* so far (begun, tried, computed, found, rejected, warned), what it saw when it
\* was made (seen, prior, callEpoch) and what a search of each candidate on its
\* own ends with (alone).
RequestOver(importee0, importer, basedir, browser, now, importee, list) ==
    [ importee0 |-> importee0, importer |-> importer,
      importee |-> importee, basedir |-> basedir,
      list |-> list,
      alone |-> [k \in 1..Len(list) |-> OutcomeOf(FreshSearch(list[k], basedir))],
      i |-> 1,
      begun |-> IF now.kind = "pending" THEN Begins(1, Len(list)) ELSE {},
      pc |-> IF now.kind = "pending" THEN "searching" ELSE "done",
      cl |-> InitialClosure,
      computed |-> << >>,
      resolved |-> UNDEF,
      tried |-> << >>,
      found |-> UNDEF,
      rejected |-> "no",
      warned |-> 0,
      seen |-> browser,
      prior |-> { s \in 1..Len(reqs) : Settled(reqs[s]) },
      callEpoch |-> epoch,
      result |-> now,
      loadOut |-> NotLoaded ]

RequestWith(importee0, importer, basedir, browser, now, importee) ==
    RequestOver(importee0, importer, basedir, browser, now, importee,
                IF now.kind = "pending"
                THEN ImportSpecifierList(importee, importer) ELSE << >>)

RequestNow(importee0, importer, basedir, browser, now) ==
    RequestWith(importee0, importer, basedir, browser, now,
                IF now.kind = "pending"
                THEN BrowserImportee(browser, importee0, basedir) ELSE importee0)

RequestIn(importee0, importer, basedir, browser) ==
    RequestNow(importee0, importer, basedir, browser,
               Immediate(importee0, importer, basedir, browser))

\* resolveId(importee, importer), up to the first search that
\* resolveImportSpecifiers starts
ResolveId(importee0, importer) ==
    /\ started
    /\ reqs' = Append(reqs, RequestIn(importee0, importer,
                                      BaseDir(importee0, importer),
                                      ImporterBrowser(importer)))
    /\ UNCHANGED <<cacheVars, options, preserveSymlinks, packageInfoCache,
                   browserMapCache, idToPackageInfo, fsFault, started>>

\* The outcome of the second then-callback of resolveId under its decision
Decided(r, resolved, decision) ==
    IF decision # "keep"
    THEN [r EXCEPT !.resolved = resolved, !.pc = "done", !.result = ResNull,
                   !.warned = IF decision = "shadow" /\ WarnsOnShadow
                              THEN @ + 1 ELSE @]
    ELSE IF options.modulesOnly THEN [r EXCEPT !.resolved = resolved, !.pc = "read"]
    ELSE [r EXCEPT !.resolved = resolved, !.pc = "done",
                   !.result = ResRecord(resolved, ModuleSideEffects(r.cl, resolved))]

\* The second then-callback of resolveId (lines 429-457) applied to request r
\* and the id it received: r afterwards
SecondThen(r, resolved) == Decided(r, resolved, EntryDecision(r.cl, r.importee, resolved))

\* The final catch(() => null), entered with a rejection for the given reason
Caught(r, reason) == [r EXCEPT !.pc = "done", !.result = ResNull, !.rejected = reason]

\* The request after the search of its candidate i ended
Searched(r, sr) ==
    [r EXCEPT !.tried = Append(@, sr.out), !.cl = sr.cl, !.computed = sr.log,
              !.found = IF sr.out = "ok" THEN sr.path ELSE @]

\* The search failed: the catch handler of resolveImportSpecifiers starts the
\* next candidate, or the failure reaches the final catch of resolveId
SearchFailed(s, r1, out) ==
    /\ reqs' = [reqs EXCEPT ![s] =
                  IF SwallowsFailure(out, r1.i, Len(r1.list))
                  THEN [r1 EXCEPT !.i = @ + 1,
                                  !.begun = @ \cup Begins(r1.i + 1, Len(r1.list))]
                  ELSE Caught(r1, out)]
    /\ UNCHANGED <<browserMapCache, idToPackageInfo>>

\* The search succeeded: the then-callbacks of resolveId up to the next
\* asynchronous call
SearchFound(s, r1, post) ==
    /\ browserMapCache' = post.bmc
    /\ IF ~post.stub /\ WantsRealpath(r1.cl, post.resolved)
       THEN /\ reqs' = [reqs EXCEPT ![s] =
                          [r1 EXCEPT !.pc = "exists", !.resolved = post.resolved]]
            /\ UNCHANGED idToPackageInfo
       ELSE /\ reqs' = [reqs EXCEPT ![s] = SecondThen(r1, post.resolved)]
            /\ idToPackageInfo' =
                 MapSet(idToPackageInfo, post.resolved, r1.cl.packageInfo)

SearchDone(s, r, sr) ==
    /\ packageInfoCache' = sr.pic
    /\ IF sr.out = "ok"
       THEN SearchFound(s, Searched(r, sr),
                        PostResolve(sr.cl, sr.path, browserMapCache))
       ELSE SearchFailed(s, Searched(r, sr), sr.out)

\* The search of candidate i ends, and the callbacks that follow it run
FinishSearch(s) ==
    /\ s \in 1..Len(reqs)
    /\ reqs[s].pc = "searching"
    /\ SearchDone(s, reqs[s],
                  Search(reqs[s].list[reqs[s].i], reqs[s].basedir,
                         [pic |-> packageInfoCache, cl |-> reqs[s].cl,
                          log |-> reqs[s].computed]))
    /\ UNCHANGED <<cacheVars, options, preserveSymlinks, fsFault, started>>

\* exists ? realpathAsync(resolved) : resolved
RealPathOf(resolved) == IF Exists(resolved) THEN realpath(resolved) ELSE resolved

\* existsAsync(resolved), and realpathAsync(resolved) after it, call back
RealpathDone(s) ==
    /\ s \in 1..Len(reqs)
    /\ reqs[s].pc = "exists"
    /\ reqs' = [reqs EXCEPT ![s] = SecondThen(reqs[s], RealPathOf(reqs[s].resolved))]
    /\ idToPackageInfo' =
         MapSet(idToPackageInfo, RealPathOf(reqs[s].resolved), reqs[s].cl.packageInfo)
    /\ UNCHANGED <<cacheVars, options, preserveSymlinks, packageInfoCache,
                   browserMapCache, fsFault, started>>

\* readFileAsync(resolved, 'utf-8') succeeds
Readable(p) == p \notin fsFault /\ realpath(p) \in Files

\* The request after readFileAsync called back (modulesOnly)
AfterRead(r) ==
    IF ~Readable(r.resolved) THEN Caught(r, "fault")
    ELSE [r EXCEPT !.pc = "done",
                   !.result = IF realpath(r.resolved) \in EsModules
                              THEN ResRecord(r.resolved,
                                             ModuleSideEffects(r.cl, r.resolved))
                              ELSE ResNull]

ReadDone(s) ==
    /\ s \in 1..Len(reqs)
    /\ reqs[s].pc = "read"
    /\ reqs' = [reqs EXCEPT ![s] = AfterRead(reqs[s])]
    /\ UNCHANGED <<cacheVars, options, preserveSymlinks, packageInfoCache,
                   browserMapCache, idToPackageInfo, fsFault, started>>

\* The host asks for one of the requests of the run
Request(q) == Len(reqs) < MaxResolves /\ ResolveId(q[1], q[2])

Next ==
    \/ BuildStart
    \/ GenerateBundle
    \/ \E s \in 1..MaxResolves : Load(s)
    \/ \E q \in RequestChoices : Request(q)
    \/ \E s \in 1..MaxResolves : FinishSearch(s)
    \/ \E s \in 1..MaxResolves : RealpathDone(s)
    \/ \E s \in 1..MaxResolves : ReadDone(s)

Spec == Init /\ [][Next]_vars

\* A run in which requests are repeated: three calls, drawn from the imports of
\* one package with a browser field and the import that discovers it
MaxRepeats == 3

RepeatChoices ==
    { <<"dep", "/p/main.js">>, <<"foo", "/p/node_modules/dep/b.js">>,
      <<"./c.js", "/p/node_modules/dep/b.js">>,
      <<"main.js", UNDEF>>, <<"./main.js", UNDEF>>, <<"/p/main.js", UNDEF>> }

RepeatOptionChoices ==
    { Options([has |-> FALSE, v |-> << >>], b, << >>, UNDEF, UNDEF, mo, "false") :
      b \in BOOLEAN, mo \in BOOLEAN }

RepeatInit ==
    /\ cache = EmptyCache /\ ops = << >> /\ calls = << >> /\ epoch = 0
    /\ options \in RepeatOptionChoices
    /\ fsFault = {}
    /\ Constructed

Repeat(q) == Len(reqs) < MaxRepeats /\ ResolveId(q[1], q[2])

RepeatNext ==
    \/ BuildStart
    \/ GenerateBundle
    \/ \E s \in 1..MaxRepeats : Load(s)
    \/ \E q \in RepeatChoices : Repeat(q)
    \/ \E s \in 1..MaxRepeats : FinishSearch(s)
    \/ \E s \in 1..MaxRepeats : RealpathDone(s)
    \/ \E s \in 1..MaxRepeats : ReadDone(s)

SpecRepeat == RepeatInit /\ [][RepeatNext]_vars

\* The probe caches alone, call by call, in a build that resolves nothing
IdleInit ==
    /\ cache = EmptyCache /\ ops = << >> /\ calls = << >> /\ epoch = 0
    /\ options = DefaultOptions
    /\ fsFault = {}
    /\ Constructed

CacheNext ==
    \/ BuildStart
    \/ GenerateBundle
    \/ \E k \in Kinds, p \in CachePaths : Wrapped(k, p)
    \/ \E id \in 1..MaxOps, o \in {"data", "file", "dir", "ENOENT", "EACCES"} : Settle(id, o)
    \/ \E c \in 1..MaxCalls : Deliver(c)

SpecCache == IdleInit /\ [][CacheNext]_vars

\* ------------------------------------------------------------------------
\* Properties of resolveImportSpecifiers and resolveId (specification Spec)
\* ------------------------------------------------------------------------

SearchOver(r) == r.list # << >> /\ r.pc # "searching"

\* C1: resolveImportSpecifiers attempts the candidates in list order; a
\* MODULE_NOT_FOUND failure of a candidate that is not the last is suppressed and
\* the next candidate is attempted; nothing is attempted after the first candidate
\* that succeeds, whose result is the result; when every candidate fails with
\* MODULE_NOT_FOUND the outcome is the failure of the last one.
C1_FirstSuccessLastFailure ==
    \A s \in 1..Len(reqs) :
        LET r == reqs[s]
            n == Len(r.list)
            t == Len(r.tried)
        IN  /\ t <= n
            /\ \A k \in 1..t : r.tried[k] = r.alone[k].out
            /\ \A k \in 1..(t - 1) : r.tried[k] = "mnf"
            /\ r.pc = "searching" => r.i = t + 1 /\ (t > 0 => r.tried[t] = "mnf")
            /\ SearchOver(r) =>
                 /\ t >= 1
                 /\ r.tried[t] = "ok" =>
                        /\ r.found = r.alone[t].path
                        /\ \A k \in 1..(t - 1) : r.alone[k].out # "ok"
                 /\ r.tried[t] = "mnf" =>
                        t = n /\ r.rejected = "mnf" /\ r.found = UNDEF

\* A request of three candidates: the first is not found, the second succeeds,
\* the third is never attempted
C1_Witness ==
    \E s \in 1..Len(reqs) :
        /\ Settled(reqs[s]) /\ Len(reqs[s].list) = 3
        /\ reqs[s].tried = <<"mnf", "ok">>
        /\ reqs[s].result.kind = "record"

\* The other policy steps that decide a request for a built-in name are out of
\* the way: no jail, no modulesOnly, and the specifier was not substituted
BuiltinRequest(r) ==
    /\ Settled(r) /\ r.result.kind # "thrown"
    /\ r.importee0 \in builtins /\ r.importee = r.importee0
    /\ jail = UNDEF /\ ~options.modulesOnly
    /\ r.list # << >>
    /\ FreshSearch(r.importee0 \o "/", r.basedir).out = "ok"

\* The id of the local package's file, as resolveId returns it
LocalId(r) ==
    IF PreserveSymlinksOn THEN FreshSearch(r.importee0 \o "/", r.basedir).path
    ELSE realpath(FreshSearch(r.importee0 \o "/", r.basedir).path)

BuiltinMatrix(r) ==
    /\ options.preferBuiltins = UNDEF => r.result = ResNull /\ r.warned = 1
    /\ options.preferBuiltins = "true" => r.result = ResNull /\ r.warned = 0
    /\ options.preferBuiltins = "false" =>
          r.result.kind = "record" /\ r.result.id = LocalId(r) /\ r.warned = 0

InSubtree(p, R) == p = R \/ StartsWith(p, R \o "/")

\* C3: with a jail directory R configured, resolveId never returns a record whose
\* id is outside the subtree rooted at R when the resolution reached a package
\* entry point; a path in a sibling directory whose name starts with R's name is
\* outside.
C3_JailConfines ==
    \A s \in 1..Len(reqs) :
        ( /\ Truthy(jail) /\ Settled(reqs[s])
          /\ reqs[s].result.kind = "record" /\ reqs[s].cl.hasPackageEntry )
        => InSubtree(reqs[s].result.id, jail)

\* The specifier of request r, or its package name, is in the dedupe list
Deduped(r) ==
    SeqHas(options.dedupe, r.importee0)
    \/ SeqHas(options.dedupe, getPackageName(r.importee0))

C5_NeverThrows ==
    \A s \in 1..Len(reqs) :
        /\ reqs[s].result.kind # "thrown"
        /\ Settled(reqs[s]) /\ reqs[s].rejected # "no" => reqs[s].result = ResNull

\* C6 as stated: a filesystem fault other than ENOENT makes the outcome of
\* resolveId a fault, which differs from the null of a module that is not found.
C6_AsStated ==
    \A s \in 1..Len(reqs) :
        Settled(reqs[s]) /\ reqs[s].rejected = "fault" => reqs[s].result # ResNull

\* C6: a filesystem fault other than ENOENT ends resolveImportSpecifiers at the
\* candidate it struck - no later candidate is attempted, even if one would
\* succeed - and resolveId turns it into null, the outcome of a module that is
\* not found.
C6_FaultBecomesNull ==
    \A s \in 1..Len(reqs) :
        LET r == reqs[s]
        IN  /\ (r.tried # << >> /\ r.tried[Len(r.tried)] = "fault") =>
                  /\ Settled(r) /\ r.rejected = "fault" /\ r.result = ResNull
            /\ \A k \in 1..(Len(r.tried) - 1) : r.tried[k] # "fault"
            /\ Settled(r) /\ r.rejected = "fault" => r.result = ResNull

\* The stat of node_modules/fs fails with EACCES for the first candidate; the
\* second candidate, the built-in, would have resolved
C6_Witness ==
    \E s \in 1..Len(reqs) :
        /\ reqs[s].tried = <<"fault">> /\ Len(reqs[s].list) = 2
        /\ reqs[s].alone[2].out = "ok"
        /\ reqs[s].result = ResNull /\ reqs[s].rejected = "fault"

\* C10: a request whose importer has a recorded browser map, with browser mode
\* on, in which the specifier or its absolute form maps to false, returns the
\* stub id without a search; resolveId of the stub id returns the stub id; load
\* returns the fixed payload for the stub id and null for any other id.
C10_StubAndLoad ==
    \A s \in 1..Len(reqs) :
        LET r == reqs[s]
        IN  /\ ( /\ useBrowserOverrides /\ r.seen.on
                 /\ r.importee0 # ES6_BROWSER_EMPTY /\ ~Contains(r.importee0, NUL)
                 /\ \/ MapGet(r.seen.m, r.importee0) = JSFALSE
                    \/ MapGet(r.seen.m, resolve(r.basedir, r.importee0)) = JSFALSE )
               => r.result = ResStub /\ r.list = << >> /\ r.tried = << >>
            /\ r.importee0 = ES6_BROWSER_EMPTY =>
                  r.result = ResStub /\ r.list = << >> /\ r.tried = << >>
            /\ r.pc = "loaded" =>
                  r.loadOut = IF r.result.id = ES6_BROWSER_EMPTY
                              THEN "export default {};" ELSE UNDEF

\* "foo" imported from dep/b.js after dep was resolved in browser mode: the stub
\* id, loaded
C10_Witness ==
    \E s \in 1..Len(reqs) :
        /\ reqs[s].importee0 = "foo" /\ reqs[s].seen.on
        /\ reqs[s].result = ResStub /\ reqs[s].pc = "loaded"
        /\ reqs[s].loadOut = "export default {};"

\* The ManifestInfo objects computed so far
ManifestInfos == { packageInfoCache[k].packageInfo : k \in DOMAIN packageInfoCache }

\* The positions of the configured main fields that the manifest holds as a string
StringFields(info) ==
    { i \in 1..Len(mainFields) : IsJsString(PkgField(info.packageJson, mainFields[i])) }

\* The first of them
Preferred(info) ==
    CHOOSE i \in StringFields(info) : \A j \in StringFields(info) : i <= j

\* C11 as stated: the first configured main field that the manifest holds as a
\* string is reported as resolvedMainField and the entry point is its value
\* resolved against the manifest's directory; when the manifest holds none of
\* them the entry point is index.js in the manifest's directory.
C11_AsStated ==
    \A info \in ManifestInfos :
        IF StringFields(info) # {}
        THEN /\ info.resolvedMainField = mainFields[Preferred(info)]
             /\ info.resolvedEntryPoint =
                  resolve(info.root,
                          PkgField(info.packageJson, mainFields[Preferred(info)]))
        ELSE info.resolvedEntryPoint = resolve(info.root, "index.js")

\* C11: the first configured main field that the manifest holds as a string is
\* reported as resolvedMainField; when the manifest holds none of them 'main' is
\* reported and the manifest's own main, if it has one, stands in for the chosen
\* value.  The entry point is the chosen value resolved against the manifest's
\* directory (index.js when there is no value), unless browser mode is on and
\* the manifest's browser object has the chosen value as a key: then the entry
\* point is the replacement that the browser map gives.
C11_MainFieldPriority ==
    \A info \in ManifestInfos :
        LET pkg == info.packageJson
            value == IF StringFields(info) # {}
                     THEN PkgField(pkg, mainFields[Preferred(info)])
                     ELSE pkg.f.main
            keyed == /\ useBrowserOverrides /\ pkg.f.browser = OBJECT
                     /\ \E n \in 1..Len(pkg.browser) : pkg.browser[n][1] = value
        IN  /\ info.resolvedMainField =
                  IF StringFields(info) # {} THEN mainFields[Preferred(info)] ELSE "main"
            /\ info.browserMappedMain = keyed
            /\ ~keyed => info.resolvedEntryPoint =
                  resolve(info.root, IF Truthy(value) THEN value ELSE "index.js")
            /\ keyed => \E n \in 1..Len(pkg.browser) :
                  /\ pkg.browser[n][1] = value
                  /\ info.resolvedEntryPoint = resolve(info.root, pkg.browser[n][2])

\* A manifest with both module and main under the priority module, main: module
\* is chosen and its file is the entry point
C11_Witness ==
    \E info \in ManifestInfos :
        /\ mainFields = <<"module", "main">>
        /\ IsJsString(info.packageJson.f.module) /\ IsJsString(info.packageJson.f.main)
        /\ info.resolvedMainField = "module"
        /\ info.resolvedEntryPoint = "/p/node_modules/dep/esm.js"

\* C12: generateBundle leaves the probe caches and the cache of the manifest
\* interpreter empty, so that nothing computed before the pass is served after it.
C12_ClearsSharedCaches ==
    [][epoch' # epoch => cache' = EmptyCache /\ packageInfoCache' = EmptyMap]_vars

\* The requests that ended in a resolved record
Returned == { s \in 1..Len(reqs) : reqs[s].result.kind = "record" }

\* C13: getPackageInfoForId(X) is, and stays, the ManifestInfo of the package
\* through which a returned id X was resolved, and an id that no call returned
\* as resolved has no ManifestInfo.
C13_InfoOfReturnedIds ==
    /\ \A s \in Returned :
         getPackageInfoForId(reqs[s].result.id) = reqs[s].cl.packageInfo
    /\ (\A s \in 1..Len(reqs) : Settled(reqs[s])) =>
         \A id \in DOMAIN idToPackageInfo :
           getPackageInfoForId(id) # NoPackageInfo =>
             \E s \in Returned : reqs[s].result.id = id

\* C14: the search of a candidate starts only when the searches of all candidates
\* before it have ended, whatever other requests are in flight.
C14_CandidatesInSequence ==
    \A s \in 1..Len(reqs) :
      \A k \in reqs[s].begun : k <= Len(reqs[s].tried) + 1

\* The second candidate of a request is being searched while another request
\* is in flight
C14_Witness ==
    \E s, t \in 1..Len(reqs) :
      /\ s # t
      /\ reqs[s].pc = "searching" /\ reqs[s].begun = {1, 2}
      /\ Len(reqs[s].tried) = 1
      /\ reqs[t].pc = "searching"

\* The requests that went on to the search
WithList == { s \in 1..Len(reqs) : reqs[s].list # << >> }

\* C15: the candidate list starts with ./<specifier> exactly when the importer
\* is absent and the specifier does not begin with ./, ../ or /, and the literal
\* specifier is the last candidate.
C15_RootShorthand ==
    \A s \in WithList :
      /\ reqs[s].list[1] = "./" \o reqs[s].importee
           <=> (reqs[s].importer = UNDEF /\ ~MatchesRelOrAbs(reqs[s].importee))
      /\ reqs[s].list[Len(reqs[s].list)] = reqs[s].importee

\* The computations of a ManifestInfo for the manifest path p that the calls of
\* build e made: (request, position in its log)
ComputationsOf(p, e) ==
    { c \in (1..Len(reqs)) \X (1..8) :
        /\ reqs[c[1]].callEpoch = e
        /\ c[2] <= Len(reqs[c[1]].computed)
        /\ reqs[c[1]].computed[c[2]] = p }

\* C16: within one build the ManifestInfo of a manifest path is computed once,
\* also for a path that reaches the manifest through a symlink.
C16_ComputedOnce ==
    \A s \in 1..Len(reqs) :
      \A k \in 1..Len(reqs[s].computed) :
        Cardinality(ComputationsOf(reqs[s].computed[k], reqs[s].callEpoch)) = 1

\* The requests that returned a resolved record with the id of a file for a
\* target whose package has a browser map, in browser mode
ReturnedWithMap ==
    { s \in Returned : /\ useBrowserOverrides /\ reqs[s].cl.packageBrowserField.on
                       /\ reqs[s].result.id # ES6_BROWSER_EMPTY }

\* C17: the browser map of the target's package is recorded against the id the
\* request returned, the id after symlink realization.
C17_MapRecordedAgainstId ==
    \A s \in ReturnedWithMap :
      /\ MapHas(browserMapCache, reqs[s].result.id)
      /\ browserMapCache[reqs[s].result.id] = reqs[s].cl.packageBrowserField.m

\* The settled requests whose search found a path that the browser map of the
\* target's package lists as a key, in browser mode
FoundListed ==
    { s \in 1..Len(reqs) :
        /\ Settled(reqs[s]) /\ useBrowserOverrides
        /\ reqs[s].found # UNDEF
        /\ reqs[s].cl.packageBrowserField.on
        /\ MapHas(reqs[s].cl.packageBrowserField.m, reqs[s].found) }

\* What the browser map of the target's package gives for the path found
Replacement(r) == r.cl.packageBrowserField.m[r.found]

\* C18: a found path that the target's browser map sets to false ends in the
\* empty-stub id under every combination of the other options, and a found
\* path that it maps to another path ends in an id derived from that path.
C18_PostResolutionMap ==
    \A s \in FoundListed :
      IF Replacement(reqs[s]) = JSFALSE
      THEN reqs[s].result.id = ES6_BROWSER_EMPTY
      ELSE reqs[s].result.kind = "record" =>
             reqs[s].result.id \in { Replacement(reqs[s]), realpath(Replacement(reqs[s])) }

\* C20: the warning about preferring a built-in is given only when the search
\* found a local alternative; a built-in specifier without a local package of
\* that name, with preferBuiltins unset, ends in null without a warning.
C20_WarnsOnlyOnShadow ==
    \A s \in 1..Len(reqs) :
      /\ reqs[s].warned > 0 =>
           reqs[s].found # UNDEF /\ reqs[s].found \notin builtins
      /\ ( /\ Settled(reqs[s]) /\ reqs[s].importee \in builtins
           /\ ~isPreferBuiltinsSet /\ reqs[s].found \in builtins ) =>
           reqs[s].result = ResNull /\ reqs[s].warned = 0

\* ------------------------------------------------------------------------
\* Properties of the probe caches (specification SpecCache)
\* ------------------------------------------------------------------------

\* C7: a call for path p made while an operation for p that started after the
\* most recent clear() is still pending attaches to that operation: no operation
\* starts while one of the same wrapper, path and epoch is pending.
C7_SingleFlight ==
    \A j \in 1..Len(ops) : ~ops[j].dup

\* C8: once an operation of the current epoch has succeeded for path p, every
\* later call for p before the next clear() starts no operation and is given
\* that result.
C8_Memoized ==
    \A c \in 1..Len(calls) :
        calls[c].known # UNDEF =>
            /\ ~calls[c].fresh
            /\ calls[c].got # "waiting" =>
                  calls[c].got = "ok" /\ calls[c].val = calls[c].known

\* Promise j is the last one started for its wrapper and path
LastStarted(j) ==
    \A i \in 1..Len(ops) :
      (ops[i].kind = ops[j].kind /\ ops[i].path = ops[j].path) => i <= j

\* C19: the error of a failed operation reaches every call attached to it and
\* is not cached, and the failure removes the entry of that operation only: the
\* entry of a pending operation started after the last clear() stays.
C19_FailureNotCached ==
    /\ \A c \in 1..Len(calls) :
         (calls[c].got # "waiting" /\ ops[calls[c].op].st = "err") =>
            calls[c].got = "err" /\ calls[c].val = ops[calls[c].op].val
    /\ \A k \in Kinds, p \in CachePaths :
         cache[k][p] # 0 => ops[cache[k][p]].st # "err"
    /\ \A j \in 1..Len(ops) :
         (ops[j].st = "pending" /\ ops[j].epoch = epoch /\ LastStarted(j)) =>
            cache[ops[j].kind][ops[j].path] = j

\* ------------------------------------------------------------------------
\* Properties of repeated requests (specification SpecRepeat)
\* ------------------------------------------------------------------------

\* Request b was made after request a had been answered, for the same specifier
\* and importer, with no clear of the caches in between
Repeats(a, b) ==
    /\ a \in reqs[b].prior
    /\ reqs[a].importee0 = reqs[b].importee0
    /\ reqs[a].importer = reqs[b].importer
    /\ reqs[a].callEpoch = reqs[b].callEpoch

\* C9: a request resolved twice with no clear of the caches in between returns
\* the same result both times, whatever was resolved in between.
C9_Idempotent ==
    \A a, b \in 1..Len(reqs) :
        Repeats(a, b) /\ Settled(reqs[b]) => reqs[a].result = reqs[b].result

=============================================================================
